---- MODULE Spec2Model ----
(***************************************************************************)
(* Model of udp_server.py: the room registry (rooms), the session index    *)
(* (client_to_room) and the receive loop of server_program, one action per *)
(* branch of the loop body, the exception handlers included.               *)
(***************************************************************************)
EXTENDS Integers, FiniteSets, Sequences, TLC

\* Number of distinct peer addresses that send datagrams.
NumAddrs == 2
\* Number of distinct room codes random.choices can produce (36^5 in the code).
NumCodes == 2

Addrs == 1..NumAddrs
Codes == 1..NumCodes

\* Value of the loop-local addr before the first successful recvfrom.
Unbound == 0

VARIABLES rooms, client_to_room, addr, data, pc, sent, exc

\* History, not state of the program: whether the room with code TrackedCode
\* was deleted at some time; "off" when the history is not recorded.
VARIABLE former

vars == <<rooms, client_to_room, addr, data, pc, sent, exc, former>>

\* The codes are interchangeable, so the history follows one of them.
TrackedCode == NumCodes

----------------------------------------------------------------------------
(* Datagrams, as what the decoding steps of line 34-35 and 46 make of them *)

\* The value of message.get("room_code"): a string, None, or an unhashable
\* JSON value (a list or a mapping).
RoomCodeValues ==
    [kind : {"str"}, val : Codes] \cup {[kind |-> "none", val |-> 0], [kind |-> "list", val |-> 0]}

NoRoomCode == [kind |-> "none", val |-> 0]

Str(c) == [kind |-> "str", val |-> c]

\* form: "empty" (b""), "bad_utf8" (data.decode() raises), "bad_json"
\* (json.loads raises), "non_mapping" (valid JSON without .get), "mapping".
Datagrams ==
    [form : {"empty", "bad_utf8", "bad_json", "non_mapping"}, action : {"none"}, room_code : {NoRoomCode}]
    \cup [form : {"mapping"}, action : {"create_room", "send_transform", "other", "none"}, room_code : {NoRoomCode}]
    \cup [form : {"mapping"}, action : {"join_room"}, room_code : RoomCodeValues]

\* The datagrams lines 34-35 raise on, and those no branch of lines 37-57 takes.
MalformedDatagrams == {d \in Datagrams : d.form \in {"bad_utf8", "bad_json", "non_mapping"}}
UnroutedDatagrams == {d \in Datagrams : d.form = "mapping" /\ d.action \in {"other", "none"}}

NoData == [form |-> "unbound", action |-> "none", room_code |-> NoRoomCode]

\* The exception, if any, that lines 34-35 raise on datagram d.
DecodeError(d) ==
    IF d.form = "bad_utf8" THEN "UnicodeDecodeError"
    ELSE IF d.form = "bad_json" THEN "JSONDecodeError"
    ELSE IF d.form = "non_mapping" THEN "AttributeError"
    ELSE "none"

\* The replies built at lines 42, 51 and 54.
RoomCreated(c) == [action |-> "room_created", room_code |-> Str(c), message |-> "none"]
JoinedRoom(rc) == [action |-> "joined_room", room_code |-> rc, message |-> "none"]
RoomNotFound == [action |-> "error", room_code |-> NoRoomCode, message |-> "Room not found"]

\* One sendto call that went through.
Sendto(p, a) == [to |-> a, payload |-> p]

----------------------------------------------------------------------------
(* Registry and session index operations                                   *)

EmptyMap == [x \in {} |-> 0]

\* d[k] = v for a dict d
DictSet(d, k, v) == [x \in DOMAIN d \cup {k} |-> IF x = k THEN v ELSE d[x]]

\* del d[k]
DictDel(d, k) == [x \in DOMAIN d \ {k} |-> d[x]]

\* generate_room_code without the collision test of line 16
CodeAccepted_NoCollisionTest(c, rms) == TRUE

\* line 16: the candidate is returned when it is not a key of rooms
CodeAccepted(c, rms) == c \notin DOMAIN rms

\* line 47: room_code in rooms, for a hashable room_code
RoomCodeIn(rc, rms) == rc.kind = "str" /\ rc.val \in DOMAIN rms

\* The clean-up without lines 78-79: an emptied room stays in rooms
Cleanup_KeepsEmptyRoom(a, rms, idx) ==
    IF a \in DOMAIN idx
    THEN LET room_code == idx[a]
         IN [rooms |-> IF room_code \in DOMAIN rms /\ a \in rms[room_code].clients
                       THEN DictSet(rms, room_code, [clients |-> rms[room_code].clients \ {a}])
                       ELSE rms,
             client_to_room |-> DictDel(idx, a)]
    ELSE [rooms |-> rms, client_to_room |-> idx]

\* The clean-up with line 79 run for every removal: the room is deleted
\* even when other members remain
Cleanup_DeletesSharedRoom(a, rms, idx) ==
    IF a \in DOMAIN idx
    THEN LET room_code == idx[a]
         IN [rooms |-> IF room_code \in DOMAIN rms /\ a \in rms[room_code].clients
                       THEN DictDel(rms, room_code)
                       ELSE rms,
             client_to_room |-> DictDel(idx, a)]
    ELSE [rooms |-> rms, client_to_room |-> idx]

\* The clean-up without lines 75-80: only the index entry is deleted
Cleanup_IndexOnly(a, rms, idx) ==
    IF a \in DOMAIN idx
    THEN [rooms |-> rms, client_to_room |-> DictDel(idx, a)]
    ELSE [rooms |-> rms, client_to_room |-> idx]

\* The clean-up that searches every room for the address instead of taking
\* the one room the index names
Cleanup_AllRooms(a, rms, idx) ==
    IF a \in DOMAIN idx
    THEN LET kept == {R \in DOMAIN rms : rms[R].clients \ {a} # {}}
         IN [rooms |-> [R \in kept |-> [clients |-> rms[R].clients \ {a}]],
             client_to_room |-> DictDel(idx, a)]
    ELSE [rooms |-> rms, client_to_room |-> idx]

\* lines 74-81: the clean-up of address a, as the pair of resulting tables
Cleanup(a, rms, idx) ==
    IF a \in DOMAIN idx
    THEN LET room_code == idx[a]
             rest == rms[room_code].clients \ {a}
         IN [rooms |-> IF room_code \in DOMAIN rms /\ a \in rms[room_code].clients
                       THEN IF rest = {} THEN DictDel(rms, room_code)
                            ELSE DictSet(rms, room_code, [clients |-> rest])
                       ELSE rms,
             client_to_room |-> DictDel(idx, a)]
    ELSE [rooms |-> rms, client_to_room |-> idx]

----------------------------------------------------------------------------
(* How one iteration of the loop ends                                      *)

\* The body ran to its end (or hit continue) without raising.
Continue(rms, idx, out) ==
    /\ rooms' = rms
    /\ client_to_room' = idx
    /\ sent' = out
    /\ exc' = "none"
    /\ pc' = "recv"

\* lines 69-70: json.JSONDecodeError is only reported.
ExceptJSONDecodeError ==
    /\ exc' = "JSONDecodeError"
    /\ sent' = {}
    /\ pc' = "recv"
    /\ UNCHANGED <<rooms, client_to_room>>

\* lines 71-82: any other Exception e, raised with tables rms, idx after out
\* was sent, while the local addr holds a.
ExceptException(e, a, rms, idx, out) ==
    /\ sent' = out
    /\ IF a = Unbound
       THEN /\ exc' = "UnboundLocalError"
            /\ pc' = "crashed"
            /\ rooms' = rms
            /\ client_to_room' = idx
       ELSE LET cleaned == Cleanup(a, rms, idx)
            IN /\ exc' = e
               /\ pc' = "recv"
               /\ rooms' = cleaned.rooms
               /\ client_to_room' = cleaned.client_to_room

\* line 79 ran for the room with code TrackedCode in the step just taken
Track ==
    former' = IF former = "no" /\ TrackedCode \in DOMAIN rooms /\ TrackedCode \notin DOMAIN rooms'
              THEN "yes"
              ELSE former

Init ==
    /\ rooms = EmptyMap
    /\ client_to_room = EmptyMap
    /\ addr = Unbound
    /\ data = NoData
    /\ pc = "recv"
    /\ sent = {}
    /\ exc = "none"
    /\ former = "off"

\* The same start, with the history of TrackedCode recorded
InitHist ==
    /\ rooms = EmptyMap
    /\ client_to_room = EmptyMap
    /\ addr = Unbound
    /\ data = NoData
    /\ pc = "recv"
    /\ sent = {}
    /\ exc = "none"
    /\ former = "no"

----------------------------------------------------------------------------
(* The loop body, one action per branch                                    *)

\* line 30 raises: addr and data keep the values of the previous iteration.
RecvFail ==
    /\ pc = "recv"
    /\ UNCHANGED <<addr, data>>
    /\ ExceptException("RecvError", addr, rooms, client_to_room, {})
    /\ Track

\* lines 31-32: an empty datagram
EmptyDatagram(a) ==
    /\ pc = "recv"
    /\ addr' = a
    /\ data' = [form |-> "empty", action |-> "none", room_code |-> NoRoomCode]
    /\ Continue(rooms, client_to_room, {})
    /\ Track

\* lines 34-35 raise
MalformedDatagram(a, d) ==
    /\ pc = "recv"
    /\ DecodeError(d) # "none"
    /\ addr' = a
    /\ data' = d
    /\ IF DecodeError(d) = "JSONDecodeError"
       THEN ExceptJSONDecodeError
       ELSE ExceptException(DecodeError(d), a, rooms, client_to_room, {})
    /\ Track

\* lines 37-38: create_room enters generate_room_code
CreateRoom(a) ==
    /\ pc = "recv"
    /\ addr' = a
    /\ data' = [form |-> "mapping", action |-> "create_room", room_code |-> NoRoomCode]
    /\ pc' = "gen"
    /\ sent' = {}
    /\ exc' = "none"
    /\ UNCHANGED <<rooms, client_to_room>>
    /\ Track

\* lines 14-17, one draw; an accepted code goes on through lines 39-43
GenerateRoomCode ==
    /\ pc = "gen"
    /\ UNCHANGED <<addr, data>>
    /\ \E code \in Codes :
         IF CodeAccepted(code, rooms)
         THEN LET rms == DictSet(rooms, code, [clients |-> {addr}])
                  idx == DictSet(client_to_room, addr, code)
              IN \/ Continue(rms, idx, {Sendto(RoomCreated(code), addr)})
                 \/ ExceptException("SendError", addr, rms, idx, {})
         ELSE UNCHANGED <<rooms, client_to_room, pc, sent, exc>>
    /\ Track

\* join_room with line 47 also asking that the sender is not a member yet: a
\* member that joins again falls to the else branch
JoinRoom_RefusesMember(a, room_code) ==
    /\ pc = "recv"
    /\ addr' = a
    /\ data' = [form |-> "mapping", action |-> "join_room", room_code |-> room_code]
    /\ IF room_code.kind = "list"
       THEN ExceptException("TypeError", a, rooms, client_to_room, {})
       ELSE IF RoomCodeIn(room_code, rooms) /\ a \notin rooms[room_code.val].clients
       THEN LET rms == DictSet(rooms, room_code.val,
                               [clients |-> rooms[room_code.val].clients \cup {a}])
                idx == DictSet(client_to_room, a, room_code.val)
            IN \/ Continue(rms, idx, {Sendto(JoinedRoom(room_code), a)})
               \/ ExceptException("SendError", a, rms, idx, {})
       ELSE \/ Continue(rooms, client_to_room, {Sendto(RoomNotFound, a)})
            \/ ExceptException("SendError", a, rooms, client_to_room, {})
    /\ Track

\* join_room that makes the room when it is missing (rooms.setdefault)
JoinRoom_CreatesMissingRoom(a, room_code) ==
    /\ pc = "recv"
    /\ addr' = a
    /\ data' = [form |-> "mapping", action |-> "join_room", room_code |-> room_code]
    /\ IF room_code.kind # "str"
       THEN ExceptException("TypeError", a, rooms, client_to_room, {})
       ELSE LET rms == DictSet(rooms, room_code.val,
                               [clients |-> (IF room_code.val \in DOMAIN rooms
                                             THEN rooms[room_code.val].clients
                                             ELSE {}) \cup {a}])
                idx == DictSet(client_to_room, a, room_code.val)
            IN \/ Continue(rms, idx, {Sendto(JoinedRoom(room_code), a)})
               \/ ExceptException("SendError", a, rms, idx, {})
    /\ Track

\* lines 45-55
JoinRoom(a, room_code) ==
    /\ pc = "recv"
    /\ addr' = a
    /\ data' = [form |-> "mapping", action |-> "join_room", room_code |-> room_code]
    /\ IF room_code.kind = "list"
       THEN ExceptException("TypeError", a, rooms, client_to_room, {})
       ELSE IF RoomCodeIn(room_code, rooms)
       THEN LET rms == DictSet(rooms, room_code.val,
                               [clients |-> rooms[room_code.val].clients \cup {a}])
                idx == DictSet(client_to_room, a, room_code.val)
            IN \/ Continue(rms, idx, {Sendto(JoinedRoom(room_code), a)})
               \/ ExceptException("SendError", a, rms, idx, {})
       ELSE \/ Continue(rooms, client_to_room, {Sendto(RoomNotFound, a)})
            \/ ExceptException("SendError", a, rooms, client_to_room, {})
    /\ Track

\* The broadcast without the test of line 58: a sender with no index entry
\* reaches the members of every room
Recipients_NoIndexTest(a, rms, idx) ==
    IF a \in DOMAIN idx /\ idx[a] \in DOMAIN rms
    THEN rms[idx[a]].clients \ {a}
    ELSE UNION {rms[R].clients : R \in DOMAIN rms} \ {a}

\* lines 62-63: the addresses the broadcast loop calls sendto for
Recipients(a, rms, idx) ==
    IF a \in DOMAIN idx /\ idx[a] \in DOMAIN rms
    THEN rms[idx[a]].clients \ {a}
    ELSE {}

\* lines 57-67; the loop visits the set in any order, and a sendto that
\* raises ends it after the members in done were served
SendTransform(a) ==
    /\ pc = "recv"
    /\ addr' = a
    /\ data' = [form |-> "mapping", action |-> "send_transform", room_code |-> NoRoomCode]
    /\ \E done \in SUBSET Recipients(a, rooms, client_to_room) :
         LET out == {Sendto(data', m) : m \in done}
         IN IF done = Recipients(a, rooms, client_to_room)
            THEN Continue(rooms, client_to_room, out)
            ELSE ExceptException("SendError", a, rooms, client_to_room, out)
    /\ Track

\* The dispatch with a final else that relays: any other action is broadcast
UnknownAction_Broadcasts(a, d) ==
    /\ pc = "recv"
    /\ d.form = "mapping"
    /\ d.action \in {"other", "none"}
    /\ addr' = a
    /\ data' = d
    /\ Continue(rooms, client_to_room, {Sendto(d, m) : m \in Recipients(a, rooms, client_to_room)})
    /\ Track

\* line 57 falls through: the action is missing or not one of the three
UnknownAction(a, d) ==
    /\ pc = "recv"
    /\ d.form = "mapping"
    /\ d.action \in {"other", "none"}
    /\ addr' = a
    /\ data' = d
    /\ Continue(rooms, client_to_room, {})
    /\ Track

Next ==
    \/ RecvFail
    \/ \E a \in Addrs : EmptyDatagram(a)
    \/ \E a \in Addrs, d \in MalformedDatagrams : MalformedDatagram(a, d)
    \/ \E a \in Addrs : CreateRoom(a)
    \/ GenerateRoomCode
    \/ \E a \in Addrs, room_code \in RoomCodeValues : JoinRoom(a, room_code)
    \/ \E a \in Addrs : SendTransform(a)
    \/ \E a \in Addrs, d \in UnroutedDatagrams : UnknownAction(a, d)

Spec == Init /\ [][Next]_vars

\* The same program, observed with the history of TrackedCode
SpecHist == InitHist /\ [][Next]_vars

----------------------------------------------------------------------------
(* Properties                                                              *)

\* The step just taken ran lines 31-67 on a datagram that recvfrom returned
\* (addr' is its sender and data' its bytes).
Handled == pc = "recv" /\ exc' \notin {"RecvError", "UnboundLocalError"}

Members(R) == IF R \in DOMAIN rooms THEN rooms[R].clients ELSE {}

C2_RegistryAndIndexAgree ==
    \A x \in Addrs, R \in Codes :
        (x \in Members(R)) <=> (x \in DOMAIN client_to_room /\ client_to_room[x] = R)

\* C3: every room in the registry has at least one member.
C3_NoEmptyRoom == \A R \in DOMAIN rooms : rooms[R].clients # {}

\* C3 witness: a join added addr to a room, the reply failed, and the clean-up
\* took addr out again while the room stayed, with its other members.
C3_Witness ==
    /\ data.action = "join_room"
    /\ exc = "SendError"
    /\ RoomCodeIn(data.room_code, rooms)
    /\ addr \notin rooms[data.room_code.val].clients

\* C4: every index entry names a room that is in the registry.
C4_IndexedRoomExists == \A x \in DOMAIN client_to_room : client_to_room[x] \in DOMAIN rooms

\* C4 witness: the clean-up after a failed receive removed the creator of a
\* room, and with it the room, while another address is still indexed.
C4_Witness ==
    /\ data.action = "create_room"
    /\ exc = "RecvError"
    /\ addr \notin DOMAIN client_to_room
    /\ Cardinality(DOMAIN rooms) < NumCodes
    /\ DOMAIN client_to_room # {}

\* C5: a join_room whose room_code is no key of the registry is answered with
\* the Room not found reply, and neither table changes.
C5_UnknownRoomIsRefused ==
    [][(Handled /\ data'.action = "join_room"
          /\ ~(data'.room_code.kind = "str" /\ data'.room_code.val \in DOMAIN rooms))
        => /\ sent' = {Sendto(RoomNotFound, addr')}
           /\ rooms' = rooms
           /\ client_to_room' = client_to_room]_vars

C7_ServerKeepsRunning == pc # "crashed"

\* C8: an address leaves the index or a member set only in a step that
\* handled a datagram of that address.
C8_CleanupOnlyForSender ==
    [][\A x \in Addrs :
         (\/ x \in DOMAIN client_to_room /\ x \notin DOMAIN client_to_room'
          \/ \E R \in DOMAIN rooms :
               x \in rooms[R].clients /\ (R \notin DOMAIN rooms' \/ x \notin rooms'[R].clients))
         => (exc' \notin {"RecvError", "UnboundLocalError"} /\ addr' = x)]_vars

\* C9: a datagram that is not a well-formed envelope gets no reply and changes
\* neither table.
C9_MalformedIsDropped ==
    [][(Handled /\ data' \in MalformedDatagrams)
        => /\ sent' = {}
           /\ rooms' = rooms
           /\ client_to_room' = client_to_room]_vars

\* C10: whenever generate_room_code runs, some code is free for it to return.
C10_GenerationFindsFreshCode == pc = "gen" => \E c \in Codes : CodeAccepted(c, rooms)

\* The step just taken handled a join_room datagram carrying code C.
JoinOf(C) == Handled /\ data'.action = "join_room" /\ data'.room_code = Str(C)

\* No room has a member after the step that it did not have before it.
NoMemberAdded ==
    \A R \in DOMAIN rooms' : rooms'[R].clients \subseteq Members(R)

\* C11 as stated: once the room with code C was deleted, every later
\* join_room carrying C gets no reply but Room not found and adds no member.
C11_FormerCodeIsRefused ==
    [][(former = "yes" /\ JoinOf(TrackedCode))
        => /\ sent' \subseteq {Sendto(RoomNotFound, addr')}
           /\ NoMemberAdded]_vars

\* C11 as amended: once the room with code C was deleted, a join_room
\* carrying C that arrives while no create_room has put C back in the registry
\* adds no member, leaves C out of the registry, and is answered with Room not
\* found and nothing else (with nothing when that sendto raises).
C11_FormerCodeIsRefusedUntilReissued ==
    [][(former = "yes" /\ JoinOf(TrackedCode) /\ TrackedCode \notin DOMAIN rooms)
        => /\ sent' \subseteq {Sendto(RoomNotFound, addr')}
           /\ exc' = "none" => sent' = {Sendto(RoomNotFound, addr')}
           /\ NoMemberAdded
           /\ TrackedCode \notin DOMAIN rooms']_vars

\* C11 witness: the room with code TrackedCode was deleted and a join_room
\* carrying it has just been refused.
C11_Witness ==
    /\ former = "yes"
    /\ data.action = "join_room"
    /\ data.room_code = Str(TrackedCode)
    /\ TrackedCode \notin DOMAIN rooms
    /\ exc = "none"
    /\ sent = {Sendto(RoomNotFound, addr)}

\* The exceptions that reach the handler of lines 71-82 with addr bound.
CleanupExcs == {"RecvError", "SendError", "TypeError", "UnicodeDecodeError", "AttributeError"}

\* The step just taken left both tables as they were.
TablesUnchanged == rooms' = rooms /\ client_to_room' = client_to_room

\* C12: a send_transform from an address with no index entry sends nothing,
\* raises nothing and changes neither table.
C12_UnaffiliatedTransformIsIgnored ==
    [][(Handled /\ data'.action = "send_transform" /\ addr' \notin DOMAIN client_to_room)
        => /\ sent' = {}
           /\ exc' = "none"
           /\ pc' = "recv"
           /\ TablesUnchanged]_vars

\* C12 witness: an address with no index entry has sent a transform while a
\* room with other members exists, and nothing was sent.
C12_Witness ==
    /\ data.action = "send_transform"
    /\ exc = "none"
    /\ addr \notin DOMAIN client_to_room
    /\ sent = {}
    /\ \E R \in DOMAIN rooms : rooms[R].clients \ {addr} # {}

\* The step just taken ran the clean-up for x and took its index entry away.
CleanedUp(x) ==
    /\ addr' = x
    /\ exc' \in CleanupExcs
    /\ x \in DOMAIN client_to_room
    /\ x \notin DOMAIN client_to_room'

\* C13: with A and B the members of room C, both indexed to C, a clean-up of
\* B leaves room C with exactly A and B without an index entry; a transform
\* that A then sends goes to nobody, raises nothing and changes nothing.
C13_CleanupLeavesOtherMemberAlone ==
    [][\A A \in Addrs, B \in Addrs, C \in DOMAIN rooms : A # B =>
         /\ (/\ rooms[C].clients = {A, B}
             /\ A \in DOMAIN client_to_room /\ client_to_room[A] = C
             /\ B \in DOMAIN client_to_room /\ client_to_room[B] = C
             /\ CleanedUp(B))
            => (/\ C \in DOMAIN rooms'
                /\ rooms'[C].clients = {A}
                /\ B \notin DOMAIN client_to_room')
         /\ (/\ rooms[C].clients = {A}
             /\ A \in DOMAIN client_to_room /\ client_to_room[A] = C
             /\ Handled /\ data'.action = "send_transform" /\ addr' = A)
            => (sent' = {} /\ exc' = "none" /\ pc' = "recv" /\ TablesUnchanged)]_vars

RoomChanged(R) ==
    \/ (R \in DOMAIN rooms) # (R \in DOMAIN rooms')
    \/ R \in DOMAIN rooms /\ R \in DOMAIN rooms' /\ rooms'[R] # rooms[R]

EntryChanged(y) ==
    \/ (y \in DOMAIN client_to_room) # (y \in DOMAIN client_to_room')
    \/ /\ y \in DOMAIN client_to_room
       /\ y \in DOMAIN client_to_room'
       /\ client_to_room'[y] # client_to_room[y]

\* The rooms the step may touch for the address x it is attributed to: the
\* room x's entry named before, the one it names after, the one x asked to join.
OwnRooms(x) ==
    (IF x \in DOMAIN client_to_room THEN {client_to_room[x]} ELSE {})
    \cup (IF x \in DOMAIN client_to_room' THEN {client_to_room'[x]} ELSE {})
    \cup (IF Handled /\ data'.action = "join_room" /\ data'.room_code.kind = "str"
          THEN {data'.room_code.val} ELSE {})

\* C14: a step attributed to address x (addr after the step) changes no index
\* entry but x's, and at most one room, which is one of x's own.
C14_OnlyOwnRoomAndEntryChange ==
    [][\/ TablesUnchanged
       \/ LET changed == {R \in Codes : RoomChanged(R)} IN
          /\ \A y \in Addrs \ {addr'} : ~EntryChanged(y)
          /\ changed \subseteq OwnRooms(addr')
          /\ \A R \in changed : changed = {R}]_vars

\* C14 witness: a failed send during a broadcast got the sender cleaned up
\* while another address keeps its index entry and its room.
C14_Witness ==
    /\ data.action = "send_transform"
    /\ exc = "SendError"
    /\ addr \notin DOMAIN client_to_room
    /\ \E y \in DOMAIN client_to_room : y # addr /\ y \in rooms[client_to_room[y]].clients

\* C15: a mapping whose action is missing or none of the three sends nothing
\* and changes neither table.
C15_UnknownActionIsDropped ==
    [][(Handled /\ data' \in UnroutedDatagrams)
        => /\ sent' = {}
           /\ exc' = "none"
           /\ TablesUnchanged]_vars

\* C15 witness: a member of a room with other members sent a mapping without
\* an action, and nothing was sent.
C15_Witness ==
    /\ data \in UnroutedDatagrams
    /\ data.action = "none"
    /\ exc = "none"
    /\ sent = {}
    /\ Recipients(addr, rooms, client_to_room) # {}

\* The one sendto of a reply went through, or it raised and nothing was sent.
RepliedWith(p) ==
    \/ sent' = {Sendto(p, addr')}
    \/ exc' = "SendError" /\ sent' = {}

\* C16: a create_room and a join_room each make the server send one datagram,
\* to the requester: room_created with the new code, joined_room with the
\* requested code when that room exists, the error reply otherwise (a sendto
\* that raises counts as the one datagram); a send_transform sends nothing to
\* its own sender.
C16_OneReplyToRequester ==
    [][/\ (pc = "gen" /\ pc' = "recv")
            => \E c \in Codes \ DOMAIN rooms : RepliedWith(RoomCreated(c))
       /\ (Handled /\ data'.action = "join_room")
            => RepliedWith(IF data'.room_code.kind = "str" /\ data'.room_code.val \in DOMAIN rooms
                           THEN JoinedRoom(data'.room_code)
                           ELSE RoomNotFound)
       /\ (Handled /\ data'.action = "send_transform")
            => \A m \in sent' : m.to # addr']_vars

\* C17: the clean-up of x whose index entry names R, in one step: x is out of
\* R and out of the index, R is gone exactly when x was its only member and
\* keeps its other members otherwise; no other room or entry changes. The
\* entry is the one the handler finds: the room just joined or created when
\* it is the reply of that join_room or create_room that raised.
C17_CleanupIsOneStep ==
    [][(exc' \in CleanupExcs) =>
         LET x == addr'
             joined == Handled /\ data'.action = "join_room" /\ RoomCodeIn(data'.room_code, rooms)
         IN IF pc = "gen"
            THEN rooms' = rooms /\ client_to_room' = DictDel(client_to_room, x)
            ELSE IF joined \/ x \in DOMAIN client_to_room
            THEN LET R == IF joined THEN data'.room_code.val ELSE client_to_room[x]
                     rest == rooms[R].clients \ {x}
                 IN /\ x \notin DOMAIN client_to_room'
                    /\ rest = {} => R \notin DOMAIN rooms'
                    /\ rest # {} => (R \in DOMAIN rooms' /\ rooms'[R].clients = rest)
                    /\ \A R2 \in Codes \ {R} : ~RoomChanged(R2)
                    /\ \A y \in Addrs \ {x} : ~EntryChanged(y)
            ELSE TablesUnchanged]_vars

\* C17 witness: addr joined a room and the failed receive that followed took
\* it out of the room and the index, the room staying with its other members.
C17_Witness ==
    /\ data.action = "join_room"
    /\ exc = "RecvError"
    /\ RoomCodeIn(data.room_code, rooms)
    /\ addr \notin rooms[data.room_code.val].clients
    /\ addr \notin DOMAIN client_to_room

\* The step just taken handled a join_room for R from a member of R whose
\* index entry is R.
Rejoin(R) ==
    /\ JoinOf(R)
    /\ addr' \in Members(R)
    /\ addr' \in DOMAIN client_to_room
    /\ client_to_room[addr'] = R

\* C18 as stated: a member of R, indexed to R, that sends join_room for R
\* again leaves both tables as they are and is sent joined_room.
C18_RejoinChangesNothing ==
    [][\A R \in Codes :
         Rejoin(R) => (TablesUnchanged /\ sent' = {Sendto(JoinedRoom(Str(R)), addr')})]_vars

\* C18 as amended: the same when the sendto of the reply goes through; when
\* it raises, nothing is sent and the clean-up takes the sender out of R and
\* out of the index, R being deleted when the sender was its only member.
C18_RejoinChangesNothingIfReplySent ==
    [][\A R \in Codes :
         Rejoin(R) =>
           \/ /\ exc' = "none"
              /\ TablesUnchanged
              /\ sent' = {Sendto(JoinedRoom(Str(R)), addr')}
           \/ /\ exc' = "SendError"
              /\ sent' = {}
              /\ client_to_room' = DictDel(client_to_room, addr')
              /\ rooms[R].clients = {addr'} => rooms' = DictDel(rooms, R)
              /\ rooms[R].clients # {addr'}
                   => rooms' = DictSet(rooms, R, [clients |-> rooms[R].clients \ {addr'}])]_vars

\* C18 witness: the only member of a room has just joined that room and was
\* sent joined_room: it was a member before, since a join needs the room to
\* exist and never removes a member.
C18_Witness ==
    /\ data.action = "join_room"
    /\ exc = "none"
    /\ RoomCodeIn(data.room_code, rooms)
    /\ rooms[data.room_code.val].clients = {addr}
    /\ sent = {Sendto(JoinedRoom(data.room_code), addr)}
    /\ addr \in DOMAIN client_to_room
    /\ client_to_room[addr] = data.room_code.val

\* C19: a transform reaches only addresses whose index entry names the room
\* the sender's entry names.
C19_TransformStaysInSendersRoom ==
    [][(Handled /\ data'.action = "send_transform")
        => \A m \in sent' :
             /\ addr' \in DOMAIN client_to_room
             /\ m.to \in DOMAIN client_to_room
             /\ client_to_room[m.to] = client_to_room[addr']]_vars

\* C20: when the index is empty the registry holds no room.
C20_NoRoomWithoutSession == DOMAIN client_to_room = {} => DOMAIN rooms = {}

====
